---- MODULE Spec2Model ----
(***************************************************************************)
(* Fee accounting and settlement of a CFD, the calculation of a funding    *)
(* fee and the algebra of Leverage, Price and Contracts                    *)
(* (crates/model/src/lib.rs), and the projection of CFDs onto the events   *)
(* shown to the user (daemon/src/to_sse_event.rs).                         *)
(*                                                                         *)
(* Amounts are satoshi counts.  bitcoin::Amount is a u64 and               *)
(* bitcoin::SignedAmount an i64; the model keeps both widths, scaled down  *)
(* from 64 bits to IntBits bits, and keeps every place where the code      *)
(* panics on a value that does not fit.  A rust_decimal::Decimal is a sign, *)
(* a mantissa and a scale, with DecimalPlaces places standing for its 28,   *)
(* and a u8 has ByteBits bits.                                              *)
(***************************************************************************)
EXTENDS Integers, Sequences, FiniteSets

VARIABLES
    own,        \* the FeeAccount of one party of the contract, or Panic
    counter,    \* the FeeAccount of the other party, or Panic
    calls,      \* the last two fee calls made on `own`, most recent last
    restored,   \* the last from_complete_fee call and what it returned
    cfds,       \* CfdsWithCurrentPrice.cfds: the CFDs handed to to_sse_event
    event,      \* what to_sse_event produced for them
    funding,    \* the last FundingFee::calculate call and what it returned
    units       \* the last value built by the unit algebra, and how

vars == <<own, counter, calls, restored, cfds, event, funding, units>>

----------------------------------------------------------------------------
(* Bounds *)

\* Width, in bits, standing for the 64 bits of u64 / i64.
IntBits == 3

\* Longest list of CFDs given to to_sse_event.
MaxCfds == 2

U64_MAX == 2^IntBits - 1
I64_MAX == 2^(IntBits - 1) - 1
I64_MIN == -(2^(IntBits - 1))

----------------------------------------------------------------------------
(* Types *)

Position == {"Long", "Short"}

Role == {"Maker", "Taker"}

counter_position(position) == IF position = "Long" THEN "Short" ELSE "Long"

counter_role(role) == IF role = "Maker" THEN "Taker" ELSE "Maker"

\* bitcoin::Amount and bitcoin::SignedAmount
Amount == 0..U64_MAX

SignedAmount == I64_MIN..I64_MAX

\* FundingRate wraps a rust_decimal::Decimal: a sign bit and a magnitude.
\* The sign bit is kept for a zero magnitude too (-0 is a Decimal).
\* The fee accounts read nothing of a rate but its sign bit, so the magnitudes
\* are zero and one non-zero value.
FundingRate == [negative : BOOLEAN, magnitude : {0, 1}]

is_zero(rate) == rate.magnitude = 0

is_sign_negative(rate) == rate.negative

is_sign_positive(rate) == ~rate.negative

OpeningFee == [fee : Amount]

FundingFee == [fee : Amount, rate : FundingRate]

None == [variant |-> "None"]

LongPaysShort(amount) == [variant |-> "LongPaysShort", amount |-> amount]

ShortPaysLong(amount) == [variant |-> "ShortPaysLong", amount |-> amount]

CompleteFee ==
    {None} \cup {LongPaysShort(a) : a \in Amount} \cup {ShortPaysLong(a) : a \in Amount}

FeeAccount == [balance : SignedAmount, position : Position, role : Role]

\* The outcome of a call that hit one of the code's expect()/unwrap() panics.
Panic == [panic |-> TRUE]

IsPanic(x) == "panic" \in DOMAIN x

----------------------------------------------------------------------------
(* FeeAccount *)

FeeAccount_new(position, role) ==
    [balance |-> 0, position |-> position, role |-> role]

balance(account) == account.balance

\* i64::unsigned_abs: the magnitude as a u64 (defined for i64::MIN too)
unsigned_abs(n) == IF n < 0 THEN 0 - n ELSE n

\* settle with the direction read off the sign of the balance alone
settle_ignores_position(account) ==
    LET absolute == unsigned_abs(account.balance)
    IN  IF account.balance = 0
        THEN None
        ELSE IF account.balance > 0
        THEN LongPaysShort(absolute)
        ELSE ShortPaysLong(absolute)

\* settle with the two directions exchanged
settle_directions_swapped(account) ==
    LET absolute == unsigned_abs(account.balance)
    IN  IF account.balance = 0
        THEN None
        ELSE IF \/ (account.position = "Long" /\ account.balance > 0)
                \/ (account.position = "Short" /\ account.balance < 0)
        THEN ShortPaysLong(absolute)
        ELSE LongPaysShort(absolute)

\* settle without the case of a balance of zero
settle_without_none(account) ==
    LET absolute == unsigned_abs(account.balance)
    IN  IF \/ (account.position = "Long" /\ account.balance > 0)
           \/ (account.position = "Short" /\ account.balance < 0)
        THEN LongPaysShort(absolute)
        ELSE ShortPaysLong(absolute)

settle(account) ==
    LET absolute == unsigned_abs(account.balance)
    IN  IF account.balance = 0
        THEN None
        ELSE IF \/ (account.position = "Long" /\ account.balance > 0)
                \/ (account.position = "Short" /\ account.balance < 0)
        THEN LongPaysShort(absolute)
        ELSE ShortPaysLong(absolute)

\* `self.balance + signed_fee` on SignedAmount: checked_add(..).expect(..)
checked_add(account, signed_fee) ==
    LET sum == account.balance + signed_fee
    IN  IF sum \in SignedAmount
        THEN [account EXCEPT !.balance = sum]
        ELSE Panic

\* add_opening_fee with the Maker charged like the Taker
add_opening_fee_ignores_role(account, opening_fee) ==
    IF opening_fee.fee > I64_MAX
    THEN Panic
    ELSE checked_add(account, opening_fee.fee)

add_opening_fee(account, opening_fee) ==
    IF opening_fee.fee > I64_MAX
    THEN Panic      \* try_into().expect("not to overflow")
    ELSE LET fee == opening_fee.fee
             signed_fee == IF account.role = "Maker" THEN 0 - fee ELSE fee
         IN  checked_add(account, signed_fee)

\* add_funding_fee with the sign read off the rate alone
add_funding_fee_ignores_position(account, funding_fee) ==
    IF funding_fee.fee > I64_MAX
    THEN Panic
    ELSE checked_add(account,
                     IF is_sign_positive(funding_fee.rate)
                     THEN funding_fee.fee
                     ELSE 0 - funding_fee.fee)

\* add_funding_fee with the sign read off the position alone
add_funding_fee_ignores_rate(account, funding_fee) ==
    IF funding_fee.fee > I64_MAX
    THEN Panic
    ELSE checked_add(account,
                     IF account.position = "Long"
                     THEN funding_fee.fee
                     ELSE 0 - funding_fee.fee)

add_funding_fee(account, funding_fee) ==
    IF funding_fee.fee > I64_MAX
    THEN Panic      \* try_into().expect("not to overflow")
    ELSE LET fee == funding_fee.fee
             signed_fee ==
                 IF \/ (account.position = "Long" /\ is_sign_positive(funding_fee.rate))
                    \/ (account.position = "Short" /\ is_sign_negative(funding_fee.rate))
                 THEN fee
                 ELSE 0 - fee
         IN  checked_add(account, signed_fee)

\* from_complete_fee that gives a Short account the balance of a Long one
from_complete_fee_ignores_position(account, fee_flow) ==
    IF fee_flow.variant = "None"
    THEN [account EXCEPT !.balance = 0]
    ELSE IF fee_flow.amount > I64_MAX
    THEN Panic
    ELSE IF fee_flow.variant = "LongPaysShort"
    THEN [account EXCEPT !.balance = fee_flow.amount]
    ELSE [account EXCEPT !.balance = 0 - fee_flow.amount]

\* from_complete_fee that adds the fee to the balance the account has
from_complete_fee_adds_to_balance(account, fee_flow) ==
    IF fee_flow.variant = "None"
    THEN account
    ELSE IF fee_flow.amount > I64_MAX
    THEN Panic
    ELSE checked_add(account,
                     IF (fee_flow.variant = "LongPaysShort")
                            = (account.position = "Long")
                     THEN fee_flow.amount
                     ELSE 0 - fee_flow.amount)

from_complete_fee(account, fee_flow) ==
    IF fee_flow.variant = "LongPaysShort"
    THEN IF fee_flow.amount > I64_MAX
         THEN Panic     \* try_into().expect("not to overflow")
         ELSE LET fee == IF account.position = "Long"
                         THEN fee_flow.amount
                         ELSE 0 - fee_flow.amount
              IN  [account EXCEPT !.balance = fee]
    ELSE IF fee_flow.variant = "ShortPaysLong"
    THEN IF fee_flow.amount > I64_MAX
         THEN Panic     \* try_into().expect("not to overflow")
         ELSE LET fee == IF account.position = "Long"
                         THEN 0 - fee_flow.amount
                         ELSE fee_flow.amount
              IN  [account EXCEPT !.balance = fee]
    ELSE [account EXCEPT !.balance = 0]

----------------------------------------------------------------------------
(* The fee as a signed amount relative to a position *)

\* A SignedAmount returned on its own, apart from an account.
SignedAmountOf(sat) == [sat |-> sat]

\* `fee * (-1)` on a SignedAmount: checked_mul(..).expect(..)
SignedAmount_mul(fee, rhs) ==
    IF fee * rhs \in SignedAmount THEN SignedAmountOf(fee * rhs) ELSE Panic

\* compute_relative with the sign read off the rate alone
compute_relative_ignores_position(funding_fee, position) ==
    IF funding_fee.fee > I64_MAX
    THEN Panic
    ELSE IF is_sign_positive(funding_fee.rate)
    THEN SignedAmountOf(funding_fee.fee)
    ELSE SignedAmount_mul(funding_fee.fee, 0 - 1)

compute_relative(funding_fee, position) ==
    IF funding_fee.fee > I64_MAX
    THEN Panic      \* to_signed().expect("fee to fit in SignedAmount")
    ELSE LET fee == funding_fee.fee
         IN  IF is_sign_positive(funding_fee.rate)
             THEN IF position = "Long"
                  THEN SignedAmountOf(fee)
                  ELSE SignedAmount_mul(fee, 0 - 1)
             ELSE IF position = "Long"
                  THEN SignedAmount_mul(fee, 0 - 1)
                  ELSE SignedAmountOf(fee)

\* as_signed_amount with the sign the balance of the position has
as_signed_amount_as_balance(fee_flow, position) ==
    IF fee_flow.variant = "None"
    THEN SignedAmountOf(0)
    ELSE IF fee_flow.amount > I64_MAX
    THEN Panic
    ELSE IF (fee_flow.variant = "LongPaysShort") = (position = "Long")
    THEN SignedAmountOf(fee_flow.amount)
    ELSE SignedAmount_mul(fee_flow.amount, 0 - 1)

as_signed_amount(fee_flow, position) ==
    IF fee_flow.variant # "None" /\ fee_flow.amount > I64_MAX
    THEN Panic      \* to_signed().unwrap()
    ELSE LET abs_fee == IF fee_flow.variant = "None" THEN 0 ELSE fee_flow.amount
         IN  IF \/ (fee_flow.variant = "LongPaysShort" /\ position = "Long")
                \/ (fee_flow.variant = "ShortPaysLong" /\ position = "Short")
             THEN SignedAmount_mul(abs_fee, 0 - 1)
             ELSE SignedAmountOf(abs_fee)

----------------------------------------------------------------------------
(* The two fee accounts of one contract *)

\* Nothing restored yet, nothing projected yet.
NotRestored ==
    [kind |-> "none", receiver |-> FeeAccount_new("Long", "Maker"),
     fee_flow |-> None, source |-> FeeAccount_new("Long", "Maker"),
     result |-> FeeAccount_new("Long", "Maker")]

NoEvent == [emitted |-> FALSE, panicked |-> FALSE, cfds |-> <<>>]

\* No fee calculated yet, no unit value built yet.
NoFunding == [called |-> FALSE]

NoUnits == [op |-> "none", depth |-> 0]

\* The last call of a history, as the one-element history that is kept.
LastCall(history) ==
    IF history = <<>> THEN <<>> ELSE <<history[Len(history)]>>

ContractInit ==
    /\ \E position \in Position, role \in Role :
          /\ own = FeeAccount_new(position, role)
          /\ counter = FeeAccount_new(counter_position(position), counter_role(role))
    /\ calls = <<>>
    /\ restored = NotRestored
    /\ cfds = <<>>
    /\ event = NoEvent
    /\ funding = NoFunding
    /\ units = NoUnits

\* Both parties record the opening fee of the contract.
AddOpeningFee(opening_fee) ==
    /\ ~IsPanic(own)
    /\ own' = add_opening_fee(own, opening_fee)
    /\ counter' = IF IsPanic(counter) THEN counter
                  ELSE add_opening_fee(counter, opening_fee)
    /\ calls' = LastCall(calls) \o
                  <<[op |-> "add_opening_fee", fee |-> opening_fee.fee,
                     rate |-> [negative |-> FALSE, magnitude |-> 0],
                     before |-> own]>>
    /\ UNCHANGED <<restored, cfds, event, funding, units>>

\* Both parties record a funding fee of the contract.
AddFundingFee(funding_fee) ==
    /\ ~IsPanic(own)
    /\ own' = add_funding_fee(own, funding_fee)
    /\ counter' = IF IsPanic(counter) THEN counter
                  ELSE add_funding_fee(counter, funding_fee)
    /\ calls' = LastCall(calls) \o
                  <<[op |-> "add_funding_fee", fee |-> funding_fee.fee,
                     rate |-> funding_fee.rate, before |-> own]>>
    /\ UNCHANGED <<restored, cfds, event, funding, units>>

\* The fee amounts charged to the pair of accounts: the small amounts and the
\* amounts at the edges of i64 and u64.
ChargedAmounts == {0, 1, 2, 3, I64_MAX, I64_MAX + 1, U64_MAX}

ContractNext ==
    \/ \E fee \in ChargedAmounts : AddOpeningFee([fee |-> fee])
    \/ \E fee \in ChargedAmounts, rate \in FundingRate :
          AddFundingFee([fee |-> fee, rate |-> rate])

Spec == ContractInit /\ [][ContractNext]_vars

----------------------------------------------------------------------------
(* Properties of the two fee accounts of one contract *)

BothAlive == ~IsPanic(own) /\ ~IsPanic(counter)

\* The most recent call on `own`
Last == calls[Len(calls)]

LastWas(op) == calls # <<>> /\ Last.op = op

\* A rate above zero, a rate below zero
StrictlyPositive(rate) == ~rate.negative /\ rate.magnitude > 0

StrictlyNegative(rate) == rate.negative /\ rate.magnitude > 0

Magnitude(n) == IF n < 0 THEN 0 - n ELSE n

\* C1: for the two parties of one contract (opposite Position, opposite Role,
\* both starting from FeeAccount::new), after the same sequence of
\* add_opening_fee and add_funding_fee calls on both accounts, settle() on the
\* one returns the same CompleteFee (variant and amount) as settle() on the
\* other.
C1_SettleSameOnBothSides ==
    BothAlive => settle(own) = settle(counter)

C1_Witness ==
    /\ BothAlive
    /\ Len(calls) = 2
    /\ calls[1].op = "add_opening_fee"
    /\ calls[2].op = "add_funding_fee"
    /\ calls[1].before.balance = 0
    /\ settle(own) = ShortPaysLong(2)
    /\ settle(counter) = ShortPaysLong(2)

\* C2: for the two parties of one contract, after every prefix of a common
\* sequence of add_opening_fee and add_funding_fee calls, the balance of one
\* account is the arithmetic negation of the balance of the other, also after
\* funding fees whose rate is zero.
C2_BalancesNegated ==
    BothAlive =>
        /\ balance(own) = 0 - balance(counter)
        /\ own.position = counter_position(counter.position)
        /\ own.role = counter_role(counter.role)

C2_Witness ==
    /\ BothAlive
    /\ LastWas("add_funding_fee")
    /\ is_zero(Last.rate)
    /\ Last.fee > 0
    /\ balance(own) = 0 - balance(counter)
    /\ balance(own) # Last.before.balance
    /\ balance(own) # 0

\* The rule of settle for one account
SettleRule(account) ==
    LET b == account.balance
    IN  /\ b = 0 => settle(account) = None
        /\ (\/ (account.position = "Long" /\ b > 0)
            \/ (account.position = "Short" /\ b < 0))
              => settle(account) = LongPaysShort(Magnitude(b))
        /\ (\/ (account.position = "Long" /\ b < 0)
            \/ (account.position = "Short" /\ b > 0))
              => settle(account) = ShortPaysLong(Magnitude(b))
        /\ \A role \in Role : settle([account EXCEPT !.role = role]) = settle(account)
        /\ settle(FeeAccount_new(account.position, account.role)) = None

\* C4: settle maps every account to one CompleteFee: a balance of 0 gives
\* None (so a new account settles to None); (Long and balance > 0) or (Short
\* and balance < 0) gives LongPaysShort(|balance|); (Long and balance < 0) or
\* (Short and balance > 0) gives ShortPaysLong(|balance|); the Role does not
\* influence the result.
C4_SettleRule ==
    /\ ~IsPanic(own) => SettleRule(own)
    /\ ~IsPanic(counter) => SettleRule(counter)

C4_Witness ==
    /\ ~IsPanic(own)
    /\ own.position = "Short"
    /\ own.balance = I64_MIN
    /\ settle(own) = LongPaysShort(0 - I64_MIN)

\* C5: add_opening_fee(f), when it returns, has added +f to the balance of a
\* Taker account and -f to that of a Maker account, whatever the Position; so
\* for every non-zero f new (Long, Taker) and (Short, Maker) accounts settle to
\* LongPaysShort(f), and new (Short, Taker) and (Long, Maker) accounts settle
\* to ShortPaysLong(f).
C5_OpeningFeeSignedByRole ==
    (LastWas("add_opening_fee") /\ ~IsPanic(own)) =>
        LET before == Last.before
            f == Last.fee
        IN  /\ own.role = "Taker" => balance(own) = before.balance + f
            /\ own.role = "Maker" => balance(own) = before.balance - f
            /\ own.position = before.position
            /\ own.role = before.role
            /\ (before.balance = 0 /\ f # 0) =>
                  /\ (\/ (own.position = "Long" /\ own.role = "Taker")
                      \/ (own.position = "Short" /\ own.role = "Maker"))
                        => settle(own) = LongPaysShort(f)
                  /\ (\/ (own.position = "Short" /\ own.role = "Taker")
                      \/ (own.position = "Long" /\ own.role = "Maker"))
                        => settle(own) = ShortPaysLong(f)

C5_Witness ==
    /\ LastWas("add_opening_fee")
    /\ ~IsPanic(own)
    /\ Last.before.balance = 0
    /\ Last.fee = I64_MAX
    /\ own.position = "Short"
    /\ own.role = "Maker"
    /\ settle(own) = LongPaysShort(I64_MAX)

C7_ZeroRateNoTransfer ==
    (LastWas("add_funding_fee") /\ is_zero(Last.rate) /\ ~IsPanic(own)) =>
        /\ balance(own) = Last.before.balance
        /\ settle(own) = settle(Last.before)

\* C8: one funding fee of amount x with a positive rate and one funding fee
\* of the same amount x with a negative rate, applied to an account in either
\* order, return the balance to its prior value; on a new account of any
\* Position and Role the result settles to CompleteFee::None.
C8_OppositeFundingFeesNet ==
    (/\ Len(calls) = 2
     /\ calls[1].op = "add_funding_fee"
     /\ calls[2].op = "add_funding_fee"
     /\ calls[1].fee = calls[2].fee
     /\ \/ StrictlyPositive(calls[1].rate) /\ StrictlyNegative(calls[2].rate)
        \/ StrictlyNegative(calls[1].rate) /\ StrictlyPositive(calls[2].rate)
     /\ ~IsPanic(own)) =>
        /\ balance(own) = calls[1].before.balance
        /\ calls[1].before.balance = 0 => settle(own) = None

C8_Witness ==
    /\ Len(calls) = 2
    /\ calls[1].op = "add_funding_fee"
    /\ calls[2].op = "add_funding_fee"
    /\ calls[1].fee = 3
    /\ calls[2].fee = 3
    /\ StrictlyNegative(calls[1].rate)
    /\ StrictlyPositive(calls[2].rate)
    /\ ~IsPanic(own)
    /\ own.position = "Short"
    /\ calls[1].before.balance = 0
    /\ calls[2].before.balance = 3
    /\ settle(own) = None

----------------------------------------------------------------------------
(* Persisting a settled fee and rebuilding an account from it *)

RestoreInit == ContractInit

\* add_opening_fee on the party's own account
ChargeOpeningFee(opening_fee) ==
    /\ ~IsPanic(own)
    /\ own' = add_opening_fee(own, opening_fee)
    /\ UNCHANGED <<counter, calls, restored, cfds, event, funding, units>>

\* add_funding_fee on the party's own account
ChargeFundingFee(funding_fee) ==
    /\ ~IsPanic(own)
    /\ own' = add_funding_fee(own, funding_fee)
    /\ UNCHANGED <<counter, calls, restored, cfds, event, funding, units>>

\* FeeAccount::new(position, role).from_complete_fee(fee_flow) for a stored
\* CompleteFee of any value
Load(position, role, fee_flow) ==
    LET receiver == FeeAccount_new(position, role)
    IN  /\ restored' = [kind |-> "input", receiver |-> receiver,
                        fee_flow |-> fee_flow, source |-> receiver,
                        result |-> from_complete_fee(receiver, fee_flow)]
        /\ UNCHANGED <<own, counter, calls, cfds, event, funding, units>>

\* FeeAccount::new(position, role).from_complete_fee(own.settle()): either
\* side of the contract rebuilds its account from what `own` settled to
Reconstruct(position, role) ==
    LET receiver == FeeAccount_new(position, role)
    IN  /\ ~IsPanic(own)
        /\ restored' = [kind |-> "settled", receiver |-> receiver,
                        fee_flow |-> settle(own), source |-> own,
                        result |-> from_complete_fee(receiver, settle(own))]
        /\ UNCHANGED <<own, counter, calls, cfds, event, funding, units>>

\* own.from_complete_fee(fee_flow): the party's account, whatever fees it
\* has accumulated, takes the balance of a stored CompleteFee
ReplaceBalance(fee_flow) ==
    /\ ~IsPanic(own)
    /\ own' = from_complete_fee(own, fee_flow)
    /\ restored' = [kind |-> "replaced", receiver |-> own,
                    fee_flow |-> fee_flow, source |-> own,
                    result |-> from_complete_fee(own, fee_flow)]
    /\ UNCHANGED <<counter, calls, cfds, event, funding, units>>

RestoreNext ==
    \/ \E opening_fee \in OpeningFee : ChargeOpeningFee(opening_fee)
    \/ \E funding_fee \in FundingFee : ChargeFundingFee(funding_fee)
    \/ \E fee_flow \in CompleteFee : ReplaceBalance(fee_flow)
    \/ \E position \in Position, role \in Role, fee_flow \in CompleteFee :
          Load(position, role, fee_flow)
    \/ \E position \in Position, role \in Role : Reconstruct(position, role)

SpecRestore == RestoreInit /\ [][RestoreNext]_vars

----------------------------------------------------------------------------
(* Properties of from_complete_fee *)

Directional(fee_flow) == fee_flow.variant # "None"

\* C3, as claimed: for every CompleteFee c (LongPaysShort(a) and
\* ShortPaysLong(a) for every amount a, 0 included, and None) and every
\* Position p and Role r, FeeAccount::new(p, r).from_complete_fee(c), when it
\* returns, settles to c.
C3_RoundTripOfEveryCompleteFee ==
    (restored.kind = "input" /\ ~IsPanic(restored.result)) =>
        settle(restored.result) = restored.fee_flow

\* C3, amended: for c = None and for every LongPaysShort(a) and
\* ShortPaysLong(a) with 0 < a <= i64::MAX, and every Position p and Role r,
\* FeeAccount::new(p, r).from_complete_fee(c).settle() == c; for a = 0 the
\* account settles to None instead; from_complete_fee panics exactly for
\* a > i64::MAX; Position and Role are those of the receiver.
C3_RoundTripOfNonZeroCompleteFee ==
    restored.kind = "input" =>
        LET c == restored.fee_flow
            result == restored.result
        IN  /\ IsPanic(result) <=> (Directional(c) /\ c.amount > I64_MAX)
            /\ ~IsPanic(result) =>
                  /\ (~Directional(c) \/ c.amount # 0) => settle(result) = c
                  /\ (Directional(c) /\ c.amount = 0) => settle(result) = None
                  /\ result.position = restored.receiver.position
                  /\ result.role = restored.receiver.role

C3_Witness ==
    /\ restored.kind = "input"
    /\ restored.receiver.position = "Short"
    /\ restored.fee_flow = ShortPaysLong(I64_MAX)
    /\ ~IsPanic(restored.result)
    /\ balance(restored.result) = I64_MAX
    /\ settle(restored.result) = ShortPaysLong(I64_MAX)

\* C9: for every account a reached from FeeAccount::new by add_opening_fee and
\* add_funding_fee (every representable balance), and for each side q (the
\* position of a and its counter position),
\* FeeAccount::new(q, r).from_complete_fee(a.settle()) completes without
\* failure and settles to a.settle(); for q = a.position the rebuilt balance
\* is a.balance(), for the counter position it is -a.balance().
C9_RebuildFromSettledOnEitherSide ==
    restored.kind = "settled" =>
        LET a == restored.source
            result == restored.result
        IN  /\ ~IsPanic(result)
            /\ settle(result) = settle(a)
            /\ restored.receiver.position = a.position
                  => balance(result) = balance(a)
            /\ restored.receiver.position = counter_position(a.position)
                  => balance(result) = 0 - balance(a)

\* C23: from_complete_fee(c) replaces the balance instead of adding to it:
\* for every account a (whatever fees it has accumulated) the resulting
\* balance depends only on c and a.position, so
\* a.from_complete_fee(c).settle() equals
\* FeeAccount::new(a.position, a.role).from_complete_fee(c).settle(), while
\* position and role are unchanged.
C23_BalanceReplaced ==
    restored.kind = "replaced" =>
        LET a == restored.source
            c == restored.fee_flow
            result == restored.result
            fresh == from_complete_fee(FeeAccount_new(a.position, a.role), c)
        IN  /\ IsPanic(result) <=> IsPanic(fresh)
            /\ ~IsPanic(result) =>
                  /\ balance(result) = balance(fresh)
                  /\ settle(result) = settle(fresh)
                  /\ result.position = a.position
                  /\ result.role = a.role
                  /\ \A other \in SignedAmount :
                        balance(from_complete_fee([a EXCEPT !.balance = other], c))
                            = balance(result)

\* A Short account that owed 3 took LongPaysShort(1): it is owed 1.
C23_Witness ==
    /\ restored.kind = "replaced"
    /\ restored.source.position = "Short"
    /\ balance(restored.source) = 3
    /\ restored.fee_flow = LongPaysShort(1)
    /\ ~IsPanic(restored.result)
    /\ balance(restored.result) = 0 - 1
    /\ settle(restored.result) = LongPaysShort(1)

\* C26: after any sequence of add_opening_fee, add_funding_fee and
\* from_complete_fee calls, settle() never returns a directional variant
\* with a zero amount: it returns None exactly when the balance is 0, and
\* otherwise LongPaysShort(x) or ShortPaysLong(x) with x == |balance| > 0.
C26_NoDirectionalZero ==
    restored.kind = "settled" =>
        LET a == restored.source
            c == restored.fee_flow
        IN  /\ c = None <=> balance(a) = 0
            /\ c # None =>
                  /\ c.variant \in {"LongPaysShort", "ShortPaysLong"}
                  /\ c.amount = Magnitude(balance(a))
                  /\ c.amount > 0
            /\ c \notin {LongPaysShort(0), ShortPaysLong(0)}

\* An account that was charged and then took a CompleteFee by
\* from_complete_fee has a balance of 0 and settled to None.
C26_Witness ==
    /\ restored.kind = "settled"
    /\ restored.source = own
    /\ own.position = "Short"
    /\ own.role = "Taker"
    /\ balance(own) = 0
    /\ restored.fee_flow = None
    /\ settle(own) \notin {LongPaysShort(0), ShortPaysLong(0)}

----------------------------------------------------------------------------
(* The direction of a payment, in its two encodings *)

DirectionInit == ContractInit

\* add_funding_fee on the party's account and compute_relative for its
\* position, of the same FundingFee
RelativeFundingFee(funding_fee) ==
    /\ ~IsPanic(own)
    /\ own' = add_funding_fee(own, funding_fee)
    /\ calls' = <<[op |-> "add_funding_fee", fee |-> funding_fee.fee,
                   rate |-> funding_fee.rate, before |-> own,
                   relative |-> compute_relative(funding_fee, own.position)]>>
    /\ UNCHANGED <<counter, restored, cfds, event, funding, units>>

DirectionNext == \E funding_fee \in FundingFee : RelativeFundingFee(funding_fee)

SpecDirection == DirectionInit /\ [][DirectionNext]_vars

\* C25: for every FundingFee (every amount and every rate, including a zero
\* rate) and every account, the amount by which add_funding_fee changes the
\* balance equals FundingFee::compute_relative(account.position): the two
\* encodings of the payment direction never disagree.
C25_ChangeIsTheRelativeFee ==
    (LastWas("add_funding_fee") /\ ~IsPanic(own)) =>
        /\ ~IsPanic(Last.relative)
        /\ balance(own) - Last.before.balance = Last.relative.sat

\* A Short account that owed 1 was charged 2 at a rate of zero: it is owed
\* 1, and the fee relative to Short is -2.
C25_Witness ==
    /\ LastWas("add_funding_fee")
    /\ ~IsPanic(own)
    /\ own.position = "Short"
    /\ is_zero(Last.rate)
    /\ ~Last.rate.negative
    /\ Last.fee = 2
    /\ Last.before.balance = 1
    /\ balance(own) = 0 - 1
    /\ Last.relative = SignedAmountOf(0 - 2)

\* as_signed_amount for a position and from_complete_fee on a new account of
\* that position, of the same CompleteFee
SignedCompleteFee(position, role, fee_flow) ==
    LET receiver == FeeAccount_new(position, role)
    IN  /\ restored' = [kind |-> "signed", receiver |-> receiver,
                        fee_flow |-> fee_flow, source |-> receiver,
                        result |-> from_complete_fee(receiver, fee_flow),
                        signed |-> as_signed_amount(fee_flow, position)]
        /\ UNCHANGED <<own, counter, calls, cfds, event, funding, units>>

SignedNext ==
    \E position \in Position, role \in Role, fee_flow \in CompleteFee :
        SignedCompleteFee(position, role, fee_flow)

SpecSigned == DirectionInit /\ [][SignedNext]_vars

\* The position that pays a CompleteFee, of the two.
Payer(fee_flow) == IF fee_flow.variant = "LongPaysShort" THEN "Long" ELSE "Short"

\* C27: for every CompleteFee c and Position p,
\* CompleteFee::as_signed_amount(p) is the arithmetic negation of
\* FeeAccount::new(p, r).from_complete_fee(c).balance(): the paying position
\* gets a negative amount from as_signed_amount and a positive balance from
\* from_complete_fee, and None gives 0 in both.
C27_SignedAmountNegatesBalance ==
    restored.kind = "signed" =>
        LET c == restored.fee_flow
            p == restored.receiver.position
        IN  /\ IsPanic(restored.signed) <=> IsPanic(restored.result)
            /\ ~IsPanic(restored.signed) =>
                  /\ restored.signed.sat = 0 - balance(restored.result)
                  /\ (Directional(c) /\ c.amount > 0) =>
                        IF p = Payer(c)
                        THEN restored.signed.sat < 0 /\ balance(restored.result) > 0
                        ELSE restored.signed.sat > 0 /\ balance(restored.result) < 0
                  /\ ~Directional(c) =>
                        restored.signed.sat = 0 /\ balance(restored.result) = 0

\* ShortPaysLong(i64::MAX) for the Short position: -i64::MAX as a signed
\* amount, i64::MAX as a balance.
C27_Witness ==
    /\ restored.kind = "signed"
    /\ restored.receiver.position = "Short"
    /\ restored.fee_flow = ShortPaysLong(I64_MAX)
    /\ restored.signed = SignedAmountOf(0 - I64_MAX)
    /\ ~IsPanic(restored.result)
    /\ balance(restored.result) = I64_MAX

----------------------------------------------------------------------------
(* The CFDs shown to the user *)

\* The names of the variants of model::cfd::CfdState
CfdStateNames ==
    {"OutgoingOrderRequest", "IncomingOrderRequest", "Accepted", "Rejected",
     "ContractSetup", "PendingOpen", "Open", "PendingCommit", "OpenCommitted",
     "MustRefund", "Refunded", "SetupFailed"}

\* model::cfd::CfdState: every variant is a struct variant, matched as
\* `Variant { .. }`
ModelCfdState == [variant : CfdStateNames]

\* The presentation CfdState: unit variants
CfdState ==
    {"CfdState::OutgoingOrderRequest", "CfdState::IncomingOrderRequest",
     "CfdState::Accepted", "CfdState::Rejected", "CfdState::ContractSetup",
     "CfdState::PendingOpen", "CfdState::Open", "CfdState::PendingCommit",
     "CfdState::OpenCommitted", "CfdState::MustRefund", "CfdState::Refunded",
     "CfdState::SetupFailed"}

CfdAction == {"Accept", "Reject", "Commit", "Settle"}

\* The conversion showing a CFD that waits for its commit as an open one
CfdState_from_pending_commit_as_open(cfd_state) ==
    IF cfd_state.variant = "PendingCommit"
    THEN "CfdState::Open"
    ELSE "CfdState::" \o cfd_state.variant

\* impl From<model::cfd::CfdState> for CfdState
CfdState_from(cfd_state) ==
    CASE cfd_state.variant = "OutgoingOrderRequest" -> "CfdState::OutgoingOrderRequest"
      [] cfd_state.variant = "IncomingOrderRequest" -> "CfdState::IncomingOrderRequest"
      [] cfd_state.variant = "Accepted" -> "CfdState::Accepted"
      [] cfd_state.variant = "Rejected" -> "CfdState::Rejected"
      [] cfd_state.variant = "ContractSetup" -> "CfdState::ContractSetup"
      [] cfd_state.variant = "PendingOpen" -> "CfdState::PendingOpen"
      [] cfd_state.variant = "Open" -> "CfdState::Open"
      [] cfd_state.variant = "OpenCommitted" -> "CfdState::OpenCommitted"
      [] cfd_state.variant = "MustRefund" -> "CfdState::MustRefund"
      [] cfd_state.variant = "Refunded" -> "CfdState::Refunded"
      [] cfd_state.variant = "SetupFailed" -> "CfdState::SetupFailed"
      [] cfd_state.variant = "PendingCommit" -> "CfdState::PendingCommit"

\* The derived Serialize of the presentation CfdState, as serde_json writes
\* it: a unit variant of an enum without a rename is the JSON string of the
\* variant's name.
CfdState_serialize(state) ==
    CASE state = "CfdState::OutgoingOrderRequest" -> [json_string |-> "OutgoingOrderRequest"]
      [] state = "CfdState::IncomingOrderRequest" -> [json_string |-> "IncomingOrderRequest"]
      [] state = "CfdState::Accepted" -> [json_string |-> "Accepted"]
      [] state = "CfdState::Rejected" -> [json_string |-> "Rejected"]
      [] state = "CfdState::ContractSetup" -> [json_string |-> "ContractSetup"]
      [] state = "CfdState::PendingOpen" -> [json_string |-> "PendingOpen"]
      [] state = "CfdState::Open" -> [json_string |-> "Open"]
      [] state = "CfdState::PendingCommit" -> [json_string |-> "PendingCommit"]
      [] state = "CfdState::OpenCommitted" -> [json_string |-> "OpenCommitted"]
      [] state = "CfdState::MustRefund" -> [json_string |-> "MustRefund"]
      [] state = "CfdState::Refunded" -> [json_string |-> "Refunded"]
      [] state = "CfdState::SetupFailed" -> [json_string |-> "SetupFailed"]

\* actions_for_state that offers Settle to whoever holds an open CFD
actions_for_state_settle_for_all(state, role) ==
    IF state.variant = "IncomingOrderRequest" /\ role = "Maker"
    THEN <<"Accept", "Reject">>
    ELSE IF state.variant = "Open"
    THEN <<"Commit", "Settle">>
    ELSE <<>>

actions_for_state(state, role) ==
    IF state.variant = "IncomingOrderRequest" /\ role = "Maker"
    THEN <<"Accept", "Reject">>
    ELSE IF state.variant = "Open" /\ role = "Taker"
    THEN <<"Commit", "Settle">>
    ELSE IF state.variant = "Open" /\ role = "Maker"
    THEN <<"Commit">>
    ELSE <<>>

\* What to_sse_event reads of a model::cfd::Cfd: its state, its role, and
\* whether cfd.profit(current_price) and cfd.margin() return Ok or Err.
Cfd == [state : ModelCfdState, role : Role, profit_ok : BOOLEAN, margin_ok : BOOLEAN]

\* The (profit_btc, profit_in_percent) of one CFD: the computed pair, or the
\* fallback (SignedAmount::ZERO, Decimal::ZERO) of unwrap_or_else
profit_or_zero(cfd) ==
    IF cfd.profit_ok
    THEN [profit_btc |-> "computed", profit_in_percent |-> "computed"]
    ELSE [profit_btc |-> "0", profit_in_percent |-> "0"]

\* The closure of to_sse_event's map: one presentation Cfd.  The transition
\* timestamp is a reading of the clock, which is not before the Unix epoch.
to_sse_cfd(cfd) ==
    LET profit == profit_or_zero(cfd)
    IN  [profit_btc |-> profit.profit_btc,
         profit_in_percent |-> profit.profit_in_percent,
         state |-> CfdState_from(cfd.state),
         actions |-> actions_for_state(cfd.state, cfd.role),
         state_transition_timestamp |-> "computed",
         margin |-> "computed"]

\* to_sse_event that unwraps the profit as it unwraps the margin
to_sse_event_unwraps_profit(list) ==
    IF \E i \in 1..Len(list) : ~list[i].margin_ok \/ ~list[i].profit_ok
    THEN [emitted |-> FALSE, panicked |-> TRUE, cfds |-> <<>>]
    ELSE [emitted |-> TRUE, panicked |-> FALSE,
          cfds |-> [i \in 1..Len(list) |-> to_sse_cfd(list[i])]]

\* impl ToSseEvent for CfdsWithCurrentPrice: cfd.margin().unwrap() panics on
\* the first CFD whose margin is an Err, and then no event is produced.
to_sse_event(list) ==
    IF \E i \in 1..Len(list) : ~list[i].margin_ok
    THEN [emitted |-> FALSE, panicked |-> TRUE, cfds |-> <<>>]
    ELSE [emitted |-> TRUE, panicked |-> FALSE,
          cfds |-> [i \in 1..Len(list) |-> to_sse_cfd(list[i])]]

CfdLists == UNION {[1..n -> Cfd] : n \in 0..MaxCfds}

SseInit ==
    /\ cfds \in CfdLists
    /\ event = NoEvent
    /\ own = FeeAccount_new("Long", "Maker")
    /\ counter = FeeAccount_new("Short", "Taker")
    /\ calls = <<>>
    /\ restored = NotRestored
    /\ funding = NoFunding
    /\ units = NoUnits

ToSseEvent ==
    /\ event = NoEvent
    /\ event' = to_sse_event(cfds)
    /\ UNCHANGED <<own, counter, calls, restored, cfds, funding, units>>

SseNext == ToSseEvent

SpecSse == SseInit /\ [][SseNext]_vars

----------------------------------------------------------------------------
(* Properties of the projection *)

\* The (state, role) pairs that are offered no action
PairsWithoutAction ==
    {pair \in ModelCfdState \X Role : actions_for_state(pair[1], pair[2]) = <<>>}

\* The actions in a list of actions
Offered(actions) == {actions[k] : k \in 1..Len(actions)}

\* C10: actions_for_state returns [Accept, Reject] for (IncomingOrderRequest,
\* Maker), [Commit, Settle] for (Open, Taker), [Commit] for (Open, Maker), and
\* the empty list for each of the other 21 (state, role) pairs over the 12
\* states; so Settle is offered to a Taker only, Accept and Reject to a Maker
\* only, and no action in a state other than IncomingOrderRequest and Open.
C10_ActionsTable ==
    event.emitted =>
        /\ Cardinality(PairsWithoutAction) = 21
        /\ Cardinality(ModelCfdState) = 12
        /\ \A i \in 1..Len(cfds) :
              LET state == cfds[i].state.variant
                  role == cfds[i].role
                  actions == event.cfds[i].actions
              IN  /\ (state = "IncomingOrderRequest" /\ role = "Maker")
                        => actions = <<"Accept", "Reject">>
                  /\ (state = "Open" /\ role = "Taker")
                        => actions = <<"Commit", "Settle">>
                  /\ (state = "Open" /\ role = "Maker")
                        => actions = <<"Commit">>
                  /\ ~(\/ (state = "IncomingOrderRequest" /\ role = "Maker")
                       \/ state = "Open")
                        => actions = <<>>
                  /\ "Settle" \in Offered(actions) => role = "Taker"
                  /\ Offered(actions) \cap {"Accept", "Reject"} # {} => role = "Maker"
                  /\ actions # <<>> => state \in {"IncomingOrderRequest", "Open"}

C10_Witness ==
    /\ event.emitted
    /\ Len(cfds) = 2
    /\ cfds[1].state.variant = "Open"
    /\ cfds[1].role = "Maker"
    /\ event.cfds[1].actions = <<"Commit">>
    /\ cfds[2].state.variant = "IncomingOrderRequest"
    /\ cfds[2].role = "Taker"
    /\ event.cfds[2].actions = <<>>

\* The presentation state that carries the name of the lifecycle state.
OfTheSameName(cfd_state) == "CfdState::" \o cfd_state.variant

\* C22: the projection From<model::cfd::CfdState> for the presentation
\* CfdState is total over all 12 lifecycle states and maps each state to the
\* presentation state of the same name (it is injective, so no two lifecycle
\* states share a name), and each of the 12 presentation states, including
\* PendingCommit, serializes to its bare unprefixed name.
C22_ProjectionKeepsTheName ==
    event.emitted =>
        /\ Cardinality(ModelCfdState) = 12
        /\ Cardinality(CfdState) = 12
        /\ \A s \in ModelCfdState :
              /\ CfdState_from(s) \in CfdState
              /\ CfdState_from(s) = OfTheSameName(s)
              /\ CfdState_serialize(CfdState_from(s)) = [json_string |-> s.variant]
        /\ Cardinality({CfdState_from(s) : s \in ModelCfdState}) = 12
        /\ {CfdState_serialize(state).json_string : state \in CfdState}
              = CfdStateNames
        /\ \A i \in 1..Len(cfds) :
              /\ event.cfds[i].state = OfTheSameName(cfds[i].state)
              /\ CfdState_serialize(event.cfds[i].state)
                    = [json_string |-> cfds[i].state.variant]
        /\ \A i, j \in 1..Len(cfds) :
              event.cfds[i].state = event.cfds[j].state
                  => cfds[i].state = cfds[j].state

\* A CFD in PendingCommit and one in Open were shown, each under its own name.
C22_Witness ==
    /\ event.emitted
    /\ Len(cfds) = 2
    /\ cfds[1].state.variant = "PendingCommit"
    /\ event.cfds[1].state = "CfdState::PendingCommit"
    /\ CfdState_serialize(event.cfds[1].state) = [json_string |-> "PendingCommit"]
    /\ cfds[2].state.variant = "Open"
    /\ event.cfds[2].state = "CfdState::Open"

\* The CFDs given to to_sse_event, had the profit of each been computed.
WithProfits == [i \in 1..Len(cfds) |-> [cfds[i] EXCEPT !.profit_ok = TRUE]]

\* to_sse_event has been called.
Called == event.emitted \/ event.panicked

\* C24: in CfdsWithCurrentPrice::to_sse_event, a failing profit computation
\* for one CFD never prevents the event from being produced: that CFD is
\* still emitted with profit_btc = 0 and profit_in_percent = 0 and all its
\* other fields (state, actions, margin, timestamp) populated, and the
\* emitted list contains exactly one entry per input CFD in input order.
C24_ProfitFallsBackToZero ==
    /\ Called => (event.emitted <=> to_sse_event(WithProfits).emitted)
    /\ event.emitted =>
          /\ Len(event.cfds) = Len(cfds)
          /\ \A i \in 1..Len(cfds) :
                LET shown == event.cfds[i]
                IN  /\ DOMAIN shown =
                          {"profit_btc", "profit_in_percent", "state", "actions",
                           "state_transition_timestamp", "margin"}
                    /\ shown.state = OfTheSameName(cfds[i].state)
                    /\ shown.actions = actions_for_state(cfds[i].state, cfds[i].role)
                    /\ shown.margin = "computed"
                    /\ shown.state_transition_timestamp = "computed"
                    /\ IF cfds[i].profit_ok
                       THEN /\ shown.profit_btc = "computed"
                            /\ shown.profit_in_percent = "computed"
                       ELSE /\ shown.profit_btc = "0"
                            /\ shown.profit_in_percent = "0"

\* Of two CFDs the profit of the first could not be computed: both are
\* shown, in their order, the first with a profit of zero.
C24_Witness ==
    /\ event.emitted
    /\ Len(cfds) = 2
    /\ Len(event.cfds) = 2
    /\ ~cfds[1].profit_ok
    /\ cfds[2].profit_ok
    /\ cfds[1].state.variant = "Open"
    /\ cfds[2].state.variant = "Refunded"
    /\ event.cfds[1].profit_btc = "0"
    /\ event.cfds[1].profit_in_percent = "0"
    /\ event.cfds[1].state = "CfdState::Open"
    /\ event.cfds[2].profit_btc = "computed"
    /\ event.cfds[2].state = "CfdState::Refunded"

----------------------------------------------------------------------------
(* rust_decimal::Decimal, as the code computes with it *)

\* A Decimal is a sign bit, an integer mantissa and a scale: its value is
\* magnitude / 10^scale.  rust_decimal keeps 28 decimal places and a 96-bit
\* mantissa (2^96 - 1 is a little under 8 * 10^28); the model keeps
\* DecimalPlaces places and the mantissa limit in the same proportion.
DecimalPlaces == 3

MAX_MANTISSA == 8 * 10^DecimalPlaces - 1

Dec(negative, magnitude, scale) ==
    [negative |-> negative, magnitude |-> magnitude, scale |-> scale]

Decimal_ZERO == Dec(FALSE, 0, 0)

Decimal_ONE == Dec(FALSE, 1, 0)

\* Decimal::from of an integer
Decimal_from(n) == Dec(n < 0, IF n < 0 THEN 0 - n ELSE n, 0)

Decimal_abs(d) == [d EXCEPT !.negative = FALSE]

\* An absent Decimal (Option::None) and a present u64 (Option::Some).
NoDecimal == [none |-> TRUE]

Some(v) == [some |-> v]

\* n / d rounded to the nearest integer, a tie going to the even neighbour.
RoundHalfEven(n, d) ==
    LET q == n \div d
        r == n % d
    IN  IF 2 * r > d \/ (2 * r = d /\ q % 2 = 1) THEN q + 1 ELSE q

\* The mantissa m at scale s brought into the limits of a Decimal by dropping
\* as few trailing digits as it takes; k digits have been tried already.
\* Nothing is left to drop when the integer part itself exceeds the mantissa.
RECURSIVE Decimal_fit(_, _, _, _)
Decimal_fit(negative, m, s, k) ==
    LET q == RoundHalfEven(m, 10^k)
    IN  IF s - k <= DecimalPlaces /\ q <= MAX_MANTISSA
        THEN Dec(negative, q, s - k)
        ELSE IF k = s THEN Panic
        ELSE Decimal_fit(negative, m, s, k + 1)

\* Trailing zeros of the mantissa removed: the same value at the least scale.
RECURSIVE Decimal_normalize(_)
Decimal_normalize(d) ==
    IF d.scale > 0 /\ d.magnitude % 10 = 0
    THEN Decimal_normalize(Dec(d.negative, d.magnitude \div 10, d.scale - 1))
    ELSE d

\* Decimal * Decimal: exact when the product fits, rounded to the places that
\* fit otherwise; panics ("Multiplication overflowed") when it does not fit.
Decimal_mul(a, b) ==
    IF a.magnitude = 0 \/ b.magnitude = 0
    THEN Decimal_ZERO
    ELSE Decimal_fit(a.negative # b.negative, a.magnitude * b.magnitude,
                     a.scale + b.scale, 0)

\* The quotient num / den at scale s, or at the largest smaller scale whose
\* mantissa fits.
RECURSIVE Decimal_quotient(_, _, _, _)
Decimal_quotient(negative, num, den, s) ==
    LET q == RoundHalfEven(num * 10^s, den)
    IN  IF q <= MAX_MANTISSA THEN Decimal_normalize(Dec(negative, q, s))
        ELSE IF s = 0 THEN NoDecimal
        ELSE Decimal_quotient(negative, num, den, s - 1)

\* Decimal::checked_div: None for a zero divisor or a quotient that does not
\* fit, otherwise the quotient to as many places as a Decimal holds.
Decimal_checked_div(a, b) ==
    IF b.magnitude = 0 THEN NoDecimal
    ELSE IF a.magnitude = 0 THEN Decimal_ZERO
    ELSE Decimal_quotient(a.negative # b.negative,
                          a.magnitude * 10^b.scale, b.magnitude * 10^a.scale,
                          DecimalPlaces)

\* Decimal / Decimal panics where checked_div returns None.
Decimal_div(a, b) ==
    LET q == Decimal_checked_div(a, b) IN IF q = NoDecimal THEN Panic ELSE q

\* The value of d in units of 10^(-s), for a scale s not below its own.
Decimal_units(d, s) ==
    (IF d.negative THEN 0 - d.magnitude ELSE d.magnitude) * 10^(s - d.scale)

Max(a, b) == IF a >= b THEN a ELSE b

\* Decimals compare by value: -0 equals 0, 1.0 equals 1.
Decimal_lt(a, b) ==
    LET s == Max(a.scale, b.scale) IN Decimal_units(a, s) < Decimal_units(b, s)

Decimal_eq(a, b) ==
    LET s == Max(a.scale, b.scale) IN Decimal_units(a, s) = Decimal_units(b, s)

Decimal_le(a, b) == Decimal_lt(a, b) \/ Decimal_eq(a, b)

\* Decimal + Decimal and Decimal - Decimal, panicking when the sum does not fit.
Decimal_add(a, b) ==
    LET s == Max(a.scale, b.scale)
        sum == Decimal_units(a, s) + Decimal_units(b, s)
    IN  Decimal_fit(sum < 0, IF sum < 0 THEN 0 - sum ELSE sum, s, 0)

Decimal_sub(a, b) ==
    Decimal_add(a, [b EXCEPT !.negative = b.magnitude # 0 /\ ~b.negative])

\* round_dp_with_strategy(0, RoundingStrategy::AwayFromZero): every value
\* that is not an integer goes to the next integer away from zero
\* (6.4 gives 7, -6.4 gives -7).
round_dp_away_from_zero(d) ==
    LET unit == 10^d.scale
        q == d.magnitude \div unit
        r == d.magnitude % unit
    IN  Dec(d.negative, IF r # 0 THEN q + 1 ELSE q, 0)

\* Decimal::to_u64: None for a negative Decimal and for an integer part
\* above u64::MAX.
to_u64(d) ==
    IF d.negative \/ d.magnitude \div 10^d.scale > U64_MAX
    THEN NoDecimal
    ELSE Some(d.magnitude \div 10^d.scale)

----------------------------------------------------------------------------
(* FundingFee::calculate *)

ContractSymbol == {"BtcUsd", "EthUsd"}

\* SETTLEMENT_INTERVAL.whole_hours()
SETTLEMENT_INTERVAL == 24

Ok(value) == [ok |-> value]

Err(message) == [err |-> message]

IsOk(result) == "ok" \in DOMAIN result

IsErr(result) == "err" \in DOMAIN result

short_pays_long(funding_rate) == is_sign_negative(funding_rate)

\* The margin of a position in satoshis.  calculate_margin is called, not
\* defined, by this code: it is whatever function of the leverage the caller's
\* symbol, price and quantity give, and every such function is a possible one.
calculate_margin(contract_symbol, price, quantity, leverage) ==
    funding.margin_of[leverage]

\* The margin of the side that pays, with the leverages the wrong way round
paying_margin_leverages_swapped(contract_symbol, price, quantity, long_leverage, short_leverage, funding_rate) ==
    IF short_pays_long(funding_rate)
    THEN calculate_margin(contract_symbol, price, quantity, short_leverage)
    ELSE calculate_margin(contract_symbol, price, quantity, long_leverage)

\* The margin of the side that pays: the long side's when the rate is
\* negative, the short side's otherwise.
paying_margin(contract_symbol, price, quantity, long_leverage, short_leverage, funding_rate) ==
    IF short_pays_long(funding_rate)
    THEN calculate_margin(contract_symbol, price, quantity, long_leverage)
    ELSE calculate_margin(contract_symbol, price, quantity, short_leverage)

\* The fraction of the funding period, always the whole period
fraction_of_funding_period_always_one(hours_to_charge) == Decimal_ONE

\* The fraction of the 24-hour funding period that hours_to_charge covers.
fraction_of_funding_period(hours_to_charge) ==
    IF hours_to_charge = SETTLEMENT_INTERVAL
    THEN Decimal_ONE
    ELSE Decimal_checked_div(Decimal_from(hours_to_charge),
                             Decimal_from(SETTLEMENT_INTERVAL))

\* The rounded fee as a u64, rounded to the nearest integer instead
rounded_fee_to_nearest(funding_fee) ==
    to_u64(Dec(funding_fee.negative,
               (2 * funding_fee.magnitude + 10^funding_fee.scale)
                   \div (2 * 10^funding_fee.scale),
               0))

\* The rounded fee as a u64, or None
rounded_fee(funding_fee) == to_u64(round_dp_away_from_zero(funding_fee))

\* FundingFee::calculate past its exit for a zero rate: the fee charged on
\* the margin of the side that pays.
charged_fee(price, quantity, long_leverage, short_leverage, funding_rate, hours_to_charge, contract_symbol) ==
    LET margin == paying_margin(contract_symbol, price, quantity,
                                long_leverage, short_leverage, funding_rate)
        fraction == fraction_of_funding_period(hours_to_charge)
    IN  IF fraction = NoDecimal THEN Err("can't establish a fraction")
        ELSE LET charged == Decimal_mul(Decimal_from(margin),
                                        Decimal_abs(funding_rate))
             IN  IF IsPanic(charged) THEN Panic
                 ELSE LET funding_fee == Decimal_mul(charged, fraction)
                      IN  IF IsPanic(funding_fee) THEN Panic
                          ELSE IF rounded_fee(funding_fee) = NoDecimal
                          THEN Err("Failed to represent as u64")
                          ELSE Ok([fee |-> rounded_fee(funding_fee).some,
                                   rate |-> funding_rate])

\* FundingFee::calculate returning the rate 0 for every zero rate
FundingFee_calculate_zero_rate_unsigned(price, quantity, long_leverage, short_leverage, funding_rate, hours_to_charge, contract_symbol) ==
    IF is_zero(funding_rate)
    THEN Ok([fee |-> 0, rate |-> Decimal_ZERO])
    ELSE charged_fee(price, quantity, long_leverage, short_leverage,
                     funding_rate, hours_to_charge, contract_symbol)

FundingFee_calculate(price, quantity, long_leverage, short_leverage, funding_rate, hours_to_charge, contract_symbol) ==
    IF is_zero(funding_rate)
    THEN Ok([fee |-> 0, rate |-> funding_rate])
    ELSE charged_fee(price, quantity, long_leverage, short_leverage,
                     funding_rate, hours_to_charge, contract_symbol)

\* The arguments of the calls: two prices, quantities and symbols, the
\* leverages ONE and TWO, every margin function over them with small margins
\* and the largest, rates of 50%, 100% and 200% of the margin and the largest
\* Decimal, each with either sign, both zeros, and periods that are negative,
\* empty, a part of the interval, the interval and longer.
CalcPrices == {1, 2}

CalcQuantities == {0, 1}

CalcLeverages == {1, 2}

CalcMargins == [CalcLeverages -> {0, 1, 2, 3, 6, U64_MAX}]

CalcRates ==
    {Dec(negative, m[1], m[2]) :
        negative \in BOOLEAN,
        m \in {<<0, 0>>, <<5, 1>>, <<1, 0>>, <<2, 0>>, <<MAX_MANTISSA, 0>>}}

CalcHours == {0 - SETTLEMENT_INTERVAL, 0 - 8, 0, 3, 8, 16,
              SETTLEMENT_INTERVAL, 2 * SETTLEMENT_INTERVAL}

FundingInit ==
    /\ \E price \in CalcPrices, quantity \in CalcQuantities,
          long_leverage \in CalcLeverages, short_leverage \in CalcLeverages,
          funding_rate \in CalcRates, hours_to_charge \in CalcHours,
          contract_symbol \in ContractSymbol, margin_of \in CalcMargins :
          funding = [called |-> FALSE, price |-> price, quantity |-> quantity,
                     margin_of |-> margin_of,
                     long_leverage |-> long_leverage,
                     short_leverage |-> short_leverage,
                     funding_rate |-> funding_rate,
                     hours_to_charge |-> hours_to_charge,
                     contract_symbol |-> contract_symbol,
                     result |-> Err("not called")]
    /\ own = FeeAccount_new("Long", "Maker")
    /\ counter = FeeAccount_new("Short", "Taker")
    /\ calls = <<>>
    /\ restored = NotRestored
    /\ cfds = <<>>
    /\ event = NoEvent
    /\ units = NoUnits

Calculate ==
    /\ ~funding.called
    /\ funding' =
         [funding EXCEPT
            !.called = TRUE,
            !.result = FundingFee_calculate(
                           funding.price, funding.quantity,
                           funding.long_leverage, funding.short_leverage,
                           funding.funding_rate, funding.hours_to_charge,
                           funding.contract_symbol)]
    /\ UNCHANGED <<own, counter, calls, restored, cfds, event, units>>

FundingNext == Calculate

SpecFunding == FundingInit /\ [][FundingNext]_vars

----------------------------------------------------------------------------
(* Properties of FundingFee::calculate *)

\* The call has been made, with a rate that is not zero.
CalculatedNonZero == funding.called /\ ~is_zero(funding.funding_rate)

\* The margin of each side and of the side that pays at the rate of the call.
LongMargin ==
    calculate_margin(funding.contract_symbol, funding.price, funding.quantity,
                     funding.long_leverage)

ShortMargin ==
    calculate_margin(funding.contract_symbol, funding.price, funding.quantity,
                     funding.short_leverage)

PayingMargin == IF funding.funding_rate.negative THEN LongMargin ELSE ShortMargin

\* hours_to_charge / 24 as a Decimal, 1 for the whole interval.
Fraction ==
    IF funding.hours_to_charge = SETTLEMENT_INTERVAL
    THEN Decimal_ONE
    ELSE Decimal_div(Decimal_from(funding.hours_to_charge),
                     Decimal_from(SETTLEMENT_INTERVAL))

\* margin_sats * |rate| * fraction of a margin, in Decimal arithmetic.
ProductOf(margin) ==
    Decimal_mul(Decimal_mul(Decimal_from(margin),
                            Decimal_abs(funding.funding_rate)),
                Fraction)

Product == ProductOf(PayingMargin)

\* The integer nearest to |d|, a tie going up; the least integer not below |d|.
Nearest(d) == (2 * d.magnitude + 10^d.scale) \div (2 * 10^d.scale)

Ceiling(d) == (d.magnitude + 10^d.scale - 1) \div 10^d.scale

\* C11, as claimed: for a non-zero rate the fee returned by
\* FundingFee::calculate is margin_sats * |rate| * fraction rounded to the
\* nearest integer, a tie going away from zero (6.4 gives 6, 6.5 gives 7).
C11_FeeRoundedToNearest ==
    (CalculatedNonZero /\ IsOk(funding.result)) =>
        funding.result.ok.fee = Nearest(Product)

\* C11, amended: for a non-zero rate the fee returned by
\* FundingFee::calculate is margin_sats * |rate| * fraction rounded away from
\* zero: a product that is not a whole number goes up to the next integer
\* (6.4 gives 7, 6.5 gives 7, 6 gives 6).  It is never truncated and never
\* rounded to the nearest integer or half to even.
C11_FeeRoundedAwayFromZero ==
    (CalculatedNonZero /\ IsOk(funding.result)) =>
        /\ funding.result.ok.fee = Ceiling(Product)
        /\ funding.result.ok.fee * 10^Product.scale >= Product.magnitude
        /\ (funding.result.ok.fee - 1) * 10^Product.scale < Product.magnitude
              \/ Product.magnitude = 0

\* A fee was returned for a product whose fractional part is below one half.
C11_Witness ==
    /\ CalculatedNonZero
    /\ IsOk(funding.result)
    /\ Product.magnitude % 10^Product.scale # 0
    /\ 2 * (Product.magnitude % 10^Product.scale) < 10^Product.scale
    /\ funding.result.ok.fee = Product.magnitude \div 10^Product.scale + 1

\* The leverage of the side that pays at the rate of the call.
PayingLeverage ==
    IF funding.funding_rate.negative
    THEN funding.long_leverage
    ELSE funding.short_leverage

\* The call repeated with other leverages.
Recalculated(long_leverage, short_leverage) ==
    FundingFee_calculate(funding.price, funding.quantity, long_leverage,
                         short_leverage, funding.funding_rate,
                         funding.hours_to_charge, funding.contract_symbol)

\* C12: for a non-zero rate FundingFee::calculate bases the fee on the margin
\* computed with long_leverage when the rate is negative and with
\* short_leverage when it is positive; the other leverage has no influence on
\* the result.
C12_MarginOfThePayingSide ==
    CalculatedNonZero =>
        /\ funding.result = Recalculated(PayingLeverage, PayingLeverage)
        /\ \A other \in CalcLeverages :
              funding.result =
                  IF funding.funding_rate.negative
                  THEN Recalculated(funding.long_leverage, other)
                  ELSE Recalculated(other, funding.short_leverage)

\* A fee was returned at a negative rate where the margin of the short side
\* would have given another fee.
C12_Witness ==
    /\ CalculatedNonZero
    /\ funding.funding_rate.negative
    /\ IsOk(funding.result)
    /\ funding.long_leverage # funding.short_leverage
    /\ IsOk(Recalculated(funding.short_leverage, funding.short_leverage))
    /\ Recalculated(funding.short_leverage, funding.short_leverage).ok.fee
          # funding.result.ok.fee

\* C13: when the rate is zero FundingFee::calculate succeeds for every
\* price, quantity, pair of leverages, hours_to_charge (negative and zero
\* included) and symbol, and returns a fee of exactly 0 with the rate as given.
C13_ZeroRateZeroFee ==
    (funding.called /\ is_zero(funding.funding_rate)) =>
        /\ IsOk(funding.result)
        /\ funding.result.ok.fee = 0
        /\ funding.result.ok.rate = funding.funding_rate

\* The call was made with the rate -0 and a negative number of hours.
C13_Witness ==
    /\ funding.called
    /\ is_zero(funding.funding_rate)
    /\ funding.funding_rate.negative
    /\ funding.hours_to_charge < 0
    /\ funding.margin_of[funding.long_leverage] = U64_MAX
    /\ IsOk(funding.result)

\* hours / 24 has an exact decimal expansion.
EvenlyConvertible(hours) ==
    (hours * 10^DecimalPlaces) % SETTLEMENT_INTERVAL = 0

\* d is hours / 24 to within half a unit of the last place a Decimal holds.
NearestQuotient(d, hours) ==
    LET error == SETTLEMENT_INTERVAL * Decimal_units(d, DecimalPlaces)
                    - hours * 10^DecimalPlaces
    IN  /\ 2 * error <= SETTLEMENT_INTERVAL
        /\ 2 * error >= 0 - SETTLEMENT_INTERVAL

\* C14, as claimed: the fraction of the funding period is 1 when
\* hours_to_charge is 24 and hours_to_charge / 24 otherwise, and the call
\* fails with an error when hours_to_charge is not evenly convertible into a
\* fraction of the 24-hour interval.
C14_FailsWhenNotEvenlyConvertible ==
    CalculatedNonZero =>
        /\ ~EvenlyConvertible(funding.hours_to_charge) => IsErr(funding.result)
        /\ IsOk(funding.result) => funding.result.ok.fee = Ceiling(Product)

\* C14, amended: the fraction of the funding period is 1 when hours_to_charge
\* is 24 and the Decimal quotient hours_to_charge / 24 otherwise, rounded to
\* the last place of a Decimal when it has no exact expansion; the division
\* by 24 cannot fail, so no value of hours_to_charge makes the call fail for
\* want of a fraction.
C14_FractionOfTheInterval ==
    CalculatedNonZero =>
        /\ funding.result # Err("can't establish a fraction")
        /\ (IsOk(funding.result) /\ funding.hours_to_charge = SETTLEMENT_INTERVAL) =>
              funding.result.ok.fee =
                  Ceiling(Decimal_mul(Decimal_from(PayingMargin),
                                      Decimal_abs(funding.funding_rate)))
        /\ (IsOk(funding.result) /\ funding.hours_to_charge # SETTLEMENT_INTERVAL) =>
              /\ NearestQuotient(Fraction, funding.hours_to_charge)
              /\ funding.result.ok.fee =
                    Ceiling(Decimal_mul(
                                Decimal_mul(Decimal_from(PayingMargin),
                                            Decimal_abs(funding.funding_rate)),
                                Fraction))

\* A fee was charged for 8 hours, a third of the interval, which no Decimal
\* holds exactly.
C14_Witness ==
    /\ CalculatedNonZero
    /\ funding.hours_to_charge = 8
    /\ ~EvenlyConvertible(funding.hours_to_charge)
    /\ IsOk(funding.result)
    /\ funding.result.ok.fee > 1

\* margin_sats * |rate| * fraction does not fit a Decimal.
ProductOverflows ==
    \/ IsPanic(Decimal_mul(Decimal_from(PayingMargin),
                           Decimal_abs(funding.funding_rate)))
    \/ IsPanic(Product)

\* The rounded product is no u64: it overflows, it is negative or it is above
\* u64::MAX.
NotRepresentable ==
    \/ ProductOverflows
    \/ Product.negative /\ Product.magnitude # 0
    \/ Ceiling(Product) > U64_MAX

\* C15: FundingFee::calculate returns an error value, and neither panics nor
\* returns a wrapped or clamped amount, whenever the rounded product
\* margin_sats * |rate| * fraction is not representable as a u64, every
\* negative product of a negative hours_to_charge included; whenever it
\* returns Ok, the fee is a non-negative amount and the stored rate is the
\* rate given.
C15_ErrorWhenNotRepresentable ==
    CalculatedNonZero =>
        /\ NotRepresentable => IsErr(funding.result)
        /\ IsOk(funding.result) =>
              /\ funding.result.ok.fee \in Amount
              /\ funding.result.ok.rate = funding.funding_rate

\* The call repeated with the rate of the opposite sign.
AtOppositeRate ==
    FundingFee_calculate(funding.price, funding.quantity,
                         funding.long_leverage, funding.short_leverage,
                         [funding.funding_rate EXCEPT !.negative = ~@],
                         funding.hours_to_charge, funding.contract_symbol)

\* The call is the one at +r of a pair of calls at +r and -r, with a long
\* leverage of 2, a short leverage of 1 and a margin at leverage 2 that is
\* half the margin at leverage 1; both calls returned a fee.
ProportionalPair ==
    /\ funding.called
    /\ ~funding.funding_rate.negative
    /\ funding.long_leverage = 2
    /\ funding.short_leverage = 1
    /\ funding.margin_of[1] = 2 * funding.margin_of[2]
    /\ IsOk(funding.result)
    /\ IsOk(AtOppositeRate)

\* C16: with long_leverage = 2, short_leverage = 1, the same price, quantity,
\* hours_to_charge and symbol, and a margin inversely proportional to the
\* leverage, the fee F+ for the rate +r and the fee F- for the rate -r
\* satisfy |F+ - 2 * F-| < 5 satoshis.
C16_FeesInTheRatioOfTheLeverages ==
    ProportionalPair =>
        /\ funding.result.ok.fee - 2 * AtOppositeRate.ok.fee < 5
        /\ 2 * AtOppositeRate.ok.fee - funding.result.ok.fee < 5

\* Such a pair whose fees are not exactly in the ratio 2 : 1.
C16_Witness ==
    /\ ProportionalPair
    /\ funding.result.ok.fee > 0
    /\ funding.result.ok.fee # 2 * AtOppositeRate.ok.fee

----------------------------------------------------------------------------
(* Leverage, Price and Contracts and their algebra *)

\* Width, in bits, standing for the 8 bits of u8.
ByteBits == 2

\* Longest chain of one constructor and the operators applied to its value.
MaxDepth == 3

U8_MAX == 2^ByteBits - 1

U8 == 0..U8_MAX

LeverageOf(value) == [leverage |-> value]

PriceOf(value) == IF IsPanic(value) THEN Panic ELSE [price |-> value]

ContractsOf(value) == IF IsPanic(value) THEN Panic ELSE [contracts |-> value]

IsLeverage(x) == "leverage" \in DOMAIN x

IsPrice(x) == "price" \in DOMAIN x

IsContracts(x) == "contracts" \in DOMAIN x

\* Decimal::from_str on a string given as its characters: an optional sign,
\* digits, and at most one point among them.
Digits == <<"0", "1", "2", "3", "4", "5", "6", "7", "8", "9">>

IsDigit(c) == \E i \in 1..Len(Digits) : Digits[i] = c

DigitValue(c) == (CHOOSE i \in 1..Len(Digits) : Digits[i] = c) - 1

RECURSIVE ParseDigits(_, _, _, _, _, _)
ParseDigits(s, i, magnitude, scale, after_point, any_digit) ==
    IF i > Len(s)
    THEN IF any_digit THEN Ok([magnitude |-> magnitude, scale |-> scale])
         ELSE Err("Invalid decimal: no digits found")
    ELSE IF IsDigit(s[i])
    THEN ParseDigits(s, i + 1, 10 * magnitude + DigitValue(s[i]),
                     IF after_point THEN scale + 1 ELSE scale, after_point, TRUE)
    ELSE IF s[i] = "." /\ ~after_point
    THEN ParseDigits(s, i + 1, magnitude, scale, TRUE, any_digit)
    ELSE Err("Invalid decimal: unknown character")

Decimal_from_str(s) ==
    LET signed == Len(s) > 0 /\ s[1] \in {"-", "+"}
        parsed == ParseDigits(s, IF signed THEN 2 ELSE 1, 0, 0, FALSE, FALSE)
    IN  IF IsErr(parsed) THEN parsed
        ELSE Ok(Dec(signed /\ s[1] = "-", parsed.ok.magnitude, parsed.ok.scale))

\* Leverage
Leverage_new(value) ==
    IF value = 0
    THEN Err("Cannot use non-positive values")
    ELSE Ok(LeverageOf(value))

Leverage_get(leverage) == leverage.leverage

Leverage_ONE == LeverageOf(1)

Leverage_TWO == LeverageOf(2)

\* u8 + u8 and u8 - u8: the value when it fits; otherwise a panic in a build
\* with overflow checks and the value wrapped to 8 bits in a build without.
u8_add(a, b) ==
    IF a + b <= U8_MAX
    THEN {LeverageOf(a + b)}
    ELSE {Panic, LeverageOf((a + b) % (U8_MAX + 1))}

u8_sub(a, b) ==
    IF a - b >= 0
    THEN {LeverageOf(a - b)}
    ELSE {Panic, LeverageOf((a - b) % (U8_MAX + 1))}

Leverage_add_u8(leverage, rhs) == u8_add(leverage.leverage, rhs)

Leverage_sub_u8(leverage, rhs) == u8_sub(leverage.leverage, rhs)

u8_add_Leverage(lhs, leverage) == u8_add(lhs, leverage.leverage)

\* Price
\* Price::INFINITE is 21,000,000, far below u64::MAX; the model keeps it below
\* the scaled u64::MAX.
Price_INFINITE == PriceOf(Decimal_from(U64_MAX \div 2))

\* Price::new without its upper limit
Price_new_without_upper_limit(value) ==
    IF ~Decimal_lt(Decimal_ZERO, value)
    THEN Err("Non-positive price not supported")
    ELSE Ok(PriceOf(value))

Price_new(value) ==
    IF ~Decimal_lt(Decimal_ZERO, value)
    THEN Err("Non-positive price not supported")
    ELSE IF ~Decimal_le(value, Decimal_from(U64_MAX))
    THEN Err("Price too large")
    ELSE Ok(PriceOf(value))

Price_into_decimal(price) == price.price

Price_from_str(s) ==
    LET dec == Decimal_from_str(s)
    IN  IF IsErr(dec) THEN dec ELSE Ok(PriceOf(dec.ok))

Price_add(lhs, rhs) == PriceOf(Decimal_add(lhs.price, rhs.price))

Price_sub(lhs, rhs) == PriceOf(Decimal_sub(lhs.price, rhs.price))

Price_mul_Leverage(price, rhs) ==
    PriceOf(Decimal_mul(price.price, Decimal_from(rhs.leverage)))

Leverage_mul_Price(leverage, rhs) ==
    PriceOf(Decimal_mul(Decimal_from(leverage.leverage), rhs.price))

Price_div_Leverage(price, rhs) ==
    PriceOf(Decimal_div(price.price, Decimal_from(rhs.leverage)))

Price_div_u8(price, rhs) == PriceOf(Decimal_div(price.price, Decimal_from(rhs)))

\* Contracts
Contracts_new(value) == ContractsOf(Decimal_from(value))

Contracts_into_decimal(contracts) == contracts.contracts

Contracts_from_str(s) ==
    LET dec == Decimal_from_str(s)
    IN  IF IsErr(dec) THEN dec ELSE Ok(ContractsOf(dec.ok))

\* LotSize::new and From<LotSize> for Contracts
Contracts_from_LotSize(lot) == ContractsOf(Decimal_from(lot))

\* Contracts + Contracts, subtracting instead
Contracts_add_subtracts(lhs, rhs) ==
    ContractsOf(Decimal_sub(lhs.contracts, rhs.contracts))

Contracts_add(lhs, rhs) == ContractsOf(Decimal_add(lhs.contracts, rhs.contracts))

Contracts_sub(lhs, rhs) == ContractsOf(Decimal_sub(lhs.contracts, rhs.contracts))

Contracts_mul_Leverage(contracts, rhs) ==
    ContractsOf(Decimal_mul(contracts.contracts, Decimal_from(rhs.leverage)))

Contracts_div_Leverage(contracts, rhs) ==
    ContractsOf(Decimal_div(contracts.contracts, Decimal_from(rhs.leverage)))

Leverage_mul_Contracts(leverage, rhs) ==
    ContractsOf(Decimal_mul(Decimal_from(leverage.leverage), rhs.contracts))

Contracts_mul_u8(contracts, rhs) ==
    ContractsOf(Decimal_mul(contracts.contracts, Decimal_from(rhs)))

\* Contracts / u8, leaving the value as it is
Contracts_div_u8_keeps_value(contracts, rhs) ==
    ContractsOf(Decimal_div(contracts.contracts, Decimal_ONE))

Contracts_div_u8(contracts, rhs) ==
    ContractsOf(Decimal_div(contracts.contracts, Decimal_from(rhs)))

\* The derived PartialEq of Contracts: the Decimals compare by value.
Contracts_eq(a, b) ==
    /\ IsContracts(a)
    /\ IsContracts(b)
    /\ Decimal_eq(a.contracts, b.contracts)

\* The arguments of the constructors: the decimals around zero, around
\* Price::INFINITE and around u64::MAX and the largest Decimal; strings that
\* are decimals and one that is not; the ends of u64 and small values.
DecimalInputs ==
    {Dec(TRUE, 1, 0), Dec(TRUE, 0, 0), Decimal_ZERO, Dec(FALSE, 5, 1),
     Decimal_ONE, Decimal_from(2), Price_INFINITE.price,
     Decimal_from(U64_MAX \div 2 + 1), Decimal_from(U64_MAX),
     Dec(FALSE, 10 * U64_MAX + 5, 1), Decimal_from(U64_MAX + 1),
     Decimal_from(MAX_MANTISSA)}

StrInputs ==
    {<<"1">>, <<"-", "1">>, <<"0">>, <<"0", ".", "5">>, <<"9">>, <<"x">>}

U64Inputs == {0, 1, 2, U64_MAX}

\* The values the constructors return for them, as operands.
FreshLeverages == {Leverage_new(v).ok : v \in {v \in U8 : IsOk(Leverage_new(v))}}

FreshPrices ==
    {Price_new(v).ok : v \in {v \in DecimalInputs : IsOk(Price_new(v))}}

FreshContracts == {Contracts_new(v) : v \in U64Inputs}

UnitsInit ==
    /\ units = NoUnits
    /\ own = FeeAccount_new("Long", "Maker")
    /\ counter = FeeAccount_new("Short", "Taker")
    /\ calls = <<>>
    /\ restored = NotRestored
    /\ cfds = <<>>
    /\ event = NoEvent
    /\ funding = NoFunding

\* The value built last, out of the Result a constructor wrapped it in.
Current == IF IsOk(units.result) THEN units.result.ok ELSE units.result

HasLeverage == units.op # "none" /\ units.depth < MaxDepth /\ IsLeverage(Current)

HasPrice == units.op # "none" /\ units.depth < MaxDepth /\ IsPrice(Current)

HasContracts == units.op # "none" /\ units.depth < MaxDepth /\ IsContracts(Current)

\* A constructor was called; an operator was applied to the value built last.
Construct(op, argument, result) ==
    /\ units' = [op |-> op, depth |-> 1, lhs |-> argument, rhs |-> argument,
                 result |-> result]
    /\ UNCHANGED <<own, counter, calls, restored, cfds, event, funding>>

Apply(op, lhs, rhs, result) ==
    /\ units' = [op |-> op, depth |-> units.depth + 1, lhs |-> lhs,
                 rhs |-> rhs, result |-> result]
    /\ UNCHANGED <<own, counter, calls, restored, cfds, event, funding>>

LeverageNew(value) ==
    /\ value \in U8
    /\ Construct("Leverage::new", [u8 |-> value], Leverage_new(value))

LeverageAddU8(rhs) ==
    /\ HasLeverage
    /\ \E result \in Leverage_add_u8(Current, rhs) :
          Apply("Leverage + u8", Current, [u8 |-> rhs], result)

LeverageSubU8(rhs) ==
    /\ HasLeverage
    /\ \E result \in Leverage_sub_u8(Current, rhs) :
          Apply("Leverage - u8", Current, [u8 |-> rhs], result)

U8AddLeverage(lhs) ==
    /\ HasLeverage
    /\ \E result \in u8_add_Leverage(lhs, Current) :
          Apply("u8 + Leverage", [u8 |-> lhs], Current, result)

PriceNew(value) ==
    /\ value \in DecimalInputs
    /\ Construct("Price::new", [decimal |-> value], Price_new(value))

PriceFromStr(s) ==
    /\ s \in StrInputs
    /\ Construct("Price::from_str", [str |-> s], Price_from_str(s))

PriceAdd(rhs) ==
    /\ HasPrice
    /\ Apply("Price + Price", Current, rhs, Price_add(Current, rhs))

PriceSub(rhs) ==
    /\ HasPrice
    /\ Apply("Price - Price", Current, rhs, Price_sub(Current, rhs))

PriceMulLeverage(rhs) ==
    /\ HasPrice
    /\ Apply("Price * Leverage", Current, rhs, Price_mul_Leverage(Current, rhs))

LeverageMulPrice(lhs) ==
    /\ HasPrice
    /\ Apply("Leverage * Price", lhs, Current, Leverage_mul_Price(lhs, Current))

PriceDivLeverage(rhs) ==
    /\ HasPrice
    /\ Apply("Price / Leverage", Current, rhs, Price_div_Leverage(Current, rhs))

PriceDivU8(rhs) ==
    /\ HasPrice
    /\ Apply("Price / u8", Current, [u8 |-> rhs], Price_div_u8(Current, rhs))

ContractsNew(value) ==
    /\ value \in Amount
    /\ Construct("Contracts::new", [u64 |-> value], Contracts_new(value))

ContractsFromStr(s) ==
    /\ s \in StrInputs
    /\ Construct("Contracts::from_str", [str |-> s], Contracts_from_str(s))

ContractsFromLotSize(lot) ==
    /\ lot \in U8
    /\ Construct("Contracts::from(LotSize)", [u8 |-> lot], Contracts_from_LotSize(lot))

ContractsAdd(rhs) ==
    /\ HasContracts
    /\ Apply("Contracts + Contracts", Current, rhs, Contracts_add(Current, rhs))

ContractsSub(rhs) ==
    /\ HasContracts
    /\ Apply("Contracts - Contracts", Current, rhs, Contracts_sub(Current, rhs))

ContractsMulLeverage(rhs) ==
    /\ HasContracts
    /\ Apply("Contracts * Leverage", Current, rhs,
             Contracts_mul_Leverage(Current, rhs))

ContractsDivLeverage(rhs) ==
    /\ HasContracts
    /\ Apply("Contracts / Leverage", Current, rhs,
             Contracts_div_Leverage(Current, rhs))

LeverageMulContracts(lhs) ==
    /\ HasContracts
    /\ Apply("Leverage * Contracts", lhs, Current,
             Leverage_mul_Contracts(lhs, Current))

ContractsMulU8(rhs) ==
    /\ HasContracts
    /\ Apply("Contracts * u8", Current, [u8 |-> rhs], Contracts_mul_u8(Current, rhs))

ContractsDivU8(rhs) ==
    /\ HasContracts
    /\ Apply("Contracts / u8", Current, [u8 |-> rhs], Contracts_div_u8(Current, rhs))

UnitsNext ==
    \/ \E value \in U8 : LeverageNew(value)
    \/ \E rhs \in U8 : LeverageAddU8(rhs)
    \/ \E rhs \in U8 : LeverageSubU8(rhs)
    \/ \E lhs \in U8 : U8AddLeverage(lhs)
    \/ \E value \in DecimalInputs : PriceNew(value)
    \/ \E s \in StrInputs : PriceFromStr(s)
    \/ \E rhs \in FreshPrices : PriceAdd(rhs)
    \/ \E rhs \in FreshPrices : PriceSub(rhs)
    \/ \E rhs \in FreshLeverages : PriceMulLeverage(rhs)
    \/ \E lhs \in FreshLeverages : LeverageMulPrice(lhs)
    \/ \E rhs \in FreshLeverages : PriceDivLeverage(rhs)
    \/ \E rhs \in U8 : PriceDivU8(rhs)
    \/ \E value \in U64Inputs : ContractsNew(value)
    \/ \E s \in StrInputs : ContractsFromStr(s)
    \/ \E lot \in U8 : ContractsFromLotSize(lot)
    \/ \E rhs \in FreshContracts : ContractsAdd(rhs)
    \/ \E rhs \in FreshContracts : ContractsSub(rhs)
    \/ \E rhs \in FreshLeverages : ContractsMulLeverage(rhs)
    \/ \E rhs \in FreshLeverages : ContractsDivLeverage(rhs)
    \/ \E lhs \in FreshLeverages : LeverageMulContracts(lhs)
    \/ \E rhs \in U8 : ContractsMulU8(rhs)
    \/ \E rhs \in U8 : ContractsDivU8(rhs)

SpecUnits == UnitsInit /\ [][UnitsNext]_vars

----------------------------------------------------------------------------
(* Properties of the unit algebra *)

LeverageOperators == {"Leverage + u8", "Leverage - u8", "u8 + Leverage"}

\* The Leverage an operator of Leverage was applied to.
LeverageOperand == IF units.op = "u8 + Leverage" THEN units.rhs ELSE units.lhs

\* C17: every Leverage is a positive 8-bit integer and never zero:
\* Leverage::new(0) returns an error, Leverage::new(v) succeeds for every v
\* in 1..255 with get() = v, and no value produced from valid Leverages by
\* Leverage + u8, u8 + Leverage or Leverage - u8 has get() = 0.
C17_LeverageNeverZero ==
    /\ units.op = "Leverage::new" =>
          /\ units.lhs.u8 = 0 => IsErr(units.result)
          /\ units.lhs.u8 \in 1..U8_MAX =>
                /\ IsOk(units.result)
                /\ Leverage_get(units.result.ok) = units.lhs.u8
    /\ (/\ units.op \in LeverageOperators
        /\ Leverage_get(LeverageOperand) \in 1..U8_MAX
        /\ IsLeverage(units.result)) =>
          Leverage_get(units.result) # 0

\* The value of a Decimal is above zero; it is above the integer n.
Positive(d) == ~d.negative /\ d.magnitude > 0

Above(d, n) == ~d.negative /\ d.magnitude > n * 10^d.scale

\* C18: Price::new(v) returns an error if and only if v <= 0 or
\* v > u64::MAX; otherwise it succeeds and into_decimal() of the Price is
\* exactly v.
C18_PriceNewLimits ==
    units.op = "Price::new" =>
        LET v == units.lhs.decimal
        IN  /\ IsErr(units.result) <=> (~Positive(v) \/ Above(v, U64_MAX))
            /\ ~IsErr(units.result) =>
                  /\ IsOk(units.result)
                  /\ Price_into_decimal(units.result.ok) = v

\* Price::new was given u64::MAX and returned it; given the half above it,
\* it would fail.
C18_Witness ==
    /\ units.op = "Price::new"
    /\ units.lhs.decimal = Decimal_from(U64_MAX)
    /\ IsOk(units.result)
    /\ Price_into_decimal(units.result.ok) = Decimal_from(U64_MAX)
    /\ IsErr(Price_new(Dec(FALSE, 10 * U64_MAX + 5, 1)))

\* The Decimal is above zero and at most Price::INFINITE.
WithinPriceLimits(d) ==
    /\ Positive(d)
    /\ ~Above(d, Price_INFINITE.price.magnitude)

PriceConstructors == {"Price::new", "Price::from_str"}

PriceOperators ==
    {"Price + Price", "Price - Price", "Price * Leverage", "Leverage * Price",
     "Price / Leverage", "Price / u8"}

\* C19: every Price obtainable through the public interface (Price::new,
\* from_str, +, -, * Leverage, / Leverage, / u8) is strictly positive and at
\* most 21,000,000; a constructor given a value that violates this fails.
C19_PriceWithinLimits ==
    /\ units.op \in PriceConstructors =>
          \/ IsErr(units.result)
          \/ WithinPriceLimits(Price_into_decimal(units.result.ok))
    /\ (units.op \in PriceOperators /\ IsPrice(units.result)) =>
          WithinPriceLimits(Price_into_decimal(units.result))

ContractsConstructors ==
    {"Contracts::new", "Contracts::from_str", "Contracts::from(LotSize)"}

ContractsOperators ==
    {"Contracts + Contracts", "Contracts - Contracts", "Contracts * Leverage",
     "Contracts / Leverage", "Leverage * Contracts", "Contracts * u8",
     "Contracts / u8"}

\* The value is below zero.
Negative(d) == d.negative /\ d.magnitude > 0

\* The Contracts an operator was applied to are all non-negative.
NonNegativeOperands ==
    /\ IsContracts(units.lhs) => ~Negative(units.lhs.contracts)
    /\ IsContracts(units.rhs) => ~Negative(units.rhs.contracts)

\* C20, as claimed: every Contracts value obtainable through the public
\* interface (Contracts::new, from_str, the conversion from LotSize, +, -,
\* *, / by u8 or Leverage) is non-negative.
C20_ContractsNonNegative ==
    (units.op \in ContractsConstructors \cup ContractsOperators
        /\ IsContracts(Current)) =>
        ~Negative(Contracts_into_decimal(Current))

\* C20, amended: the Contracts built by Contracts::new, by the conversion
\* from LotSize and by +, * and / (by a u8 or a Leverage) on non-negative
\* Contracts are non-negative; a - b is negative exactly when a is below b;
\* from_str takes the sign the string gives, so that "-1" is -1 contract.
C20_ContractsNonNegativeButBySubAndFromStr ==
    /\ units.op \in {"Contracts::new", "Contracts::from(LotSize)"} =>
          /\ IsContracts(units.result)
          /\ ~Negative(Contracts_into_decimal(units.result))
    /\ (/\ units.op \in ContractsOperators \ {"Contracts - Contracts"}
        /\ NonNegativeOperands
        /\ IsContracts(units.result)) =>
          ~Negative(Contracts_into_decimal(units.result))
    /\ (units.op = "Contracts - Contracts" /\ IsContracts(units.result)) =>
          (Negative(Contracts_into_decimal(units.result))
              <=> Decimal_lt(units.lhs.contracts, units.rhs.contracts))
    /\ (units.op = "Contracts::from_str" /\ units.lhs.str = <<"-", "1">>) =>
          units.result = Ok(ContractsOf(Dec(TRUE, 1, 0)))

\* 1 contract less 2 contracts was built: -1 contract; and the sum of two
\* non-negative Contracts was built.
C20_Witness ==
    /\ units.op = "Contracts - Contracts"
    /\ units.lhs = Contracts_new(1)
    /\ units.rhs = Contracts_new(2)
    /\ units.result = ContractsOf(Dec(TRUE, 1, 0))

\* The Contracts is one Contracts::new builds.
BuiltByNew(contracts) == \E value \in Amount : contracts = Contracts_new(value)

\* The step undoes the operation applied last: the operation first was
\* applied to a Contracts built by Contracts::new, and the operation undo is
\* now applied to its result with the same right-hand operand.
Undoes(first, undo) ==
    /\ units'.op = undo
    /\ units.op = first
    /\ units'.lhs = units.result
    /\ units'.rhs = units.rhs
    /\ BuiltByNew(units.lhs)

\* The step returns the Contracts the operation applied last was applied to.
GivesBackTheFirst == Contracts_eq(units'.result, units.lhs)

\* C21, as claimed: for all Contracts a, b built with Contracts::new and
\* every scalar k (u8 value or Leverage): (a + b) - b == a, and
\* (a * k) / k == a exactly, without failure.
C21_RoundTripsForEveryScalar ==
    [][/\ Undoes("Contracts + Contracts", "Contracts - Contracts") =>
              GivesBackTheFirst
       /\ Undoes("Contracts * u8", "Contracts / u8") => GivesBackTheFirst
       /\ Undoes("Contracts * Leverage", "Contracts / Leverage") =>
              GivesBackTheFirst]_vars

\* C21, amended: for all Contracts a, b built with Contracts::new,
\* (a + b) - b == a; for every u8 k other than 0 and every Leverage k that
\* Leverage::new builds, (a * k) / k == a exactly, without failure; for the
\* u8 0, a * 0 is 0 contracts and (a * 0) / 0 panics.
C21_RoundTripsForNonZeroScalar ==
    [][/\ Undoes("Contracts + Contracts", "Contracts - Contracts") =>
              GivesBackTheFirst
       /\ Undoes("Contracts * u8", "Contracts / u8") =>
              IF units.rhs.u8 = 0
              THEN /\ Contracts_eq(units.result, Contracts_new(0))
                   /\ IsPanic(units'.result)
              ELSE GivesBackTheFirst
       /\ Undoes("Contracts * Leverage", "Contracts / Leverage") =>
              /\ IsOk(Leverage_new(Leverage_get(units.rhs)))
              /\ GivesBackTheFirst]_vars

\* u64::MAX contracts were multiplied by the largest u8 and the product was
\* divided by it: u64::MAX contracts again.
C21_Witness ==
    /\ units.op = "Contracts / u8"
    /\ units.depth = 3
    /\ units.rhs = [u8 |-> U8_MAX]
    /\ units.lhs = Contracts_mul_u8(Contracts_new(U64_MAX), U8_MAX)
    /\ units.result = Contracts_new(U64_MAX)

====
